---- MODULE Spec2Model ----
(***************************************************************************)
(* Model of the `run` command of lotus-storage-miner                        *)
(* (cmd/lotus-storage-miner/run.go): the sequential bootstrap of            *)
(* runCmd.Action, the authenticated HTTP serving stack, the signal-driven   *)
(* shutdown goroutine and the optional pledge-sector goroutine.             *)
(***************************************************************************)
EXTENDS Integers, Sequences, FiniteSets, TLC

(* ------------------------------ bounds --------------------------------- *)
\* the API version the remote daemon reports ranges over 0..MaxVersion
MaxVersion == 2
\* capacity queries (WorkerStats calls) the pledge loop may issue
MaxCycles == 2
\* LocalFree and RemotesFree range over 0..MaxFree
MaxFree == 1

(* --------------------------- program constants -------------------------- *)
\* sigChan := make(chan os.Signal, 2)
SigChanCap == 2
\* build.APIVersion, the API version this build expects of the daemon
APIVersion == 1

Versions == 0..MaxVersion
\* signal.Notify(sigChan, syscall.SIGTERM, syscall.SIGINT)
Signals == {"SIGTERM", "SIGINT"}
\* values of the "api" flag: its default, a valid port, a string that is no port
ApiDefault == "2345"
ApiValues == {"9000", "x"}
NoEndpoint == [ip |-> "", port |-> ""]
\* endpoints the repository may hold before the run
Persisted == {NoEndpoint, [ip |-> "0.0.0.0", port |-> "2345"]}
\* the value of the storage-repo flag
storageRepoPath == "~/.lotusstorage"
\* request paths, as sequences of path characters
RequestPaths ==
  { <<"/", "rpc", "/", "v0">>,
    <<"/", "rpc", "/", "v0", "/", "x">>,
    <<"/", "remote", "/", "x">>,
    <<"/", "debug">> }
Credentials == {"valid", "invalid"}

VARIABLES
  cfg,          \* flags of the invocation and the state of the collaborators at start
  pc,           \* position of runCmd.Action
  result,       \* the error runCmd.Action returned ([err |-> "none"] while running)
  calls,        \* number of calls made so far, per callee
  repoEndpoint, \* the endpoint persisted in the repository
  endpoint,     \* local variable endpoint
  node,         \* the node built by node.New: none, running, stopped, stopErr
  lst,          \* the listener: [state, addr]
  peer,         \* the node is connected to the daemon's listen addresses
  srv,          \* the http.Server: [handler, inShutdown]
  notified,     \* signal.Notify(sigChan, ...) has run
  sigChan,      \* the number of signals queued in the buffered channel sigChan
  signalled,    \* a termination signal has reached the process since signal.Notify
  sdPc,         \* position of the shutdown goroutine
  sdLog,        \* messages logged by the shutdown goroutine
  plPc,         \* position of the pledge goroutine
  plLog,        \* messages logged by the pledge goroutine
  ctxDone,      \* the pledge goroutine's request context is cancelled
  wstat,        \* local variable wstat of the current pledge cycle
  req,          \* the request in flight
  exited        \* the process has exited

vars == <<cfg, pc, result, calls, repoEndpoint, endpoint, node, lst, peer, srv, notified,
          sigChan, signalled, sdPc, sdLog, plPc, plLog, ctxDone, wstat, req, exited>>

bootVars == <<repoEndpoint, endpoint, node, lst, peer>>
serveVars == <<srv, req>>
sigVars == <<notified, sigChan, signalled>>
sdVars == <<sdPc, sdLog>>
plVars == <<plPc, plLog, ctxDone, wstat>>

Callees ==
  { "GetFullNodeAPI", "Version", "SyncWait", "NewFS", "Exists", "New", "SetAPIEndpoint",
    "APIEndpoint", "NetAddrsListen", "NetConnect", "Listen", "Serve", "stop",
    "Shutdown", "GetStorageMinerAPI", "WorkerStats", "PledgeSector", "log.Pledge",
    "time.After" }

Called(c) == [calls EXCEPT ![c] = @ + 1]
Called2(c, d) == [calls EXCEPT ![c] = @ + 1, ![d] = @ + 1]

NoError == [err |-> "none", arg |-> ""]
Error(e) == [err |-> e, arg |-> ""]
ErrorArg(e, a) == [err |-> e, arg |-> a]

NoWstat == [LocalFree |-> 0, RemotesFree |-> 0, set |-> FALSE]
NoReq == [stage |-> "none", path |-> <<>>, cred |-> "", verified |-> FALSE, handler |-> ""]

Init ==
  /\ cfg \in [ remote : Versions, nosync : BOOLEAN, pledge : BOOLEAN,
               apiSet : BOOLEAN, api : ApiValues \cup {ApiDefault}, repoInit : BOOLEAN ]
  /\ cfg.apiSet <=> cfg.api \in ApiValues
  /\ pc = "connect"
  /\ result = NoError
  /\ calls = [c \in Callees |-> 0]
  /\ repoEndpoint \in Persisted
  /\ endpoint = NoEndpoint
  /\ node = "none"
  /\ lst = [state |-> "none", addr |-> NoEndpoint]
  /\ peer = FALSE
  /\ srv = [handler |-> "none", inShutdown |-> FALSE]
  /\ notified = FALSE
  /\ sigChan = 0
  /\ signalled = FALSE
  /\ sdPc = "none"
  /\ sdLog = {}
  /\ plPc = "off"
  /\ plLog = {}
  /\ ctxDone = FALSE
  /\ wstat = NoWstat
  /\ req = NoReq
  /\ exited = FALSE

\* runCmd.Action returns err
Return(e) ==
  /\ pc' = "returned"
  /\ result' = e

(* ------------------------------ bootstrap ------------------------------- *)

\* nodeApi, ncloser, err := lcli.GetFullNodeAPI(cctx)
MainConnect ==
  /\ pc = "connect"
  /\ calls' = Called("GetFullNodeAPI")
  /\ \E ok \in BOOLEAN :
       IF ok THEN pc' = "version" /\ result' = result
       ELSE Return(Error("GetFullNodeAPI"))
  /\ UNCHANGED <<cfg, bootVars, serveVars, sigVars, sdVars, plVars, exited>>

VersionMismatch_Never(remote, local) == FALSE

\* if v.APIVersion != build.APIVersion
VersionMismatch(remote, local) == remote # local

\* v, err := nodeApi.Version(ctx) and the comparison with build.APIVersion
MainVersion ==
  /\ pc = "version"
  /\ calls' = Called("Version")
  /\ \E ok \in BOOLEAN :
       IF ~ok THEN Return(Error("Version"))
       ELSE IF VersionMismatch(cfg.remote, APIVersion)
            THEN Return(ErrorArg("VersionMismatch", APIVersion))
            ELSE pc' = "sync" /\ result' = result
  /\ UNCHANGED <<cfg, bootVars, serveVars, sigVars, sdVars, plVars, exited>>

SyncGate_Always(nosync) == TRUE

\* if !cctx.Bool("nosync")
SyncGate(nosync) == ~nosync

\* if err := lcli.SyncWait(ctx, nodeApi); err != nil { return xerrors.Errorf("sync wait: %w", err) }
MainSync ==
  /\ pc = "sync"
  /\ IF SyncGate(cfg.nosync)
     THEN /\ calls' = Called("SyncWait")
          /\ \E ok \in BOOLEAN :
               IF ok THEN pc' = "repo" /\ result' = result
               ELSE Return(Error("SyncWait"))
     ELSE /\ pc' = "repo"
          /\ UNCHANGED <<calls, result>>
  /\ UNCHANGED <<cfg, bootVars, serveVars, sigVars, sdVars, plVars, exited>>

RepoInitialized_Unchecked(ok) == TRUE

\* if !ok { return xerrors.Errorf("repo at '%s' is not initialized, ...") }
RepoInitialized(ok) == ok

\* r, err := repo.NewFS(storageRepoPath); ok, err := r.Exists()
MainRepo ==
  /\ pc = "repo"
  /\ \E outcome \in {"NewFS", "Exists", "ok"} :
       CASE outcome = "NewFS" ->
              /\ calls' = Called("NewFS")
              /\ Return(Error("NewFS"))
         [] outcome = "Exists" ->
              /\ calls' = Called2("NewFS", "Exists")
              /\ Return(Error("Exists"))
         [] outcome = "ok" ->
              /\ calls' = Called2("NewFS", "Exists")
              /\ IF RepoInitialized(cfg.repoInit)
                 THEN pc' = "new" /\ result' = result
                 ELSE Return(ErrorArg("RepoNotInitialized", storageRepoPath))
  /\ UNCHANGED <<cfg, bootVars, serveVars, sigVars, sdVars, plVars, exited>>

EndpointOverrideSet_Always(isSet) == TRUE

\* node.ApplyIf(func(s *node.Settings) bool { return cctx.IsSet("api") }, ...)
EndpointOverrideSet(isSet) == isSet

\* multiaddr.NewMultiaddr accepts "/ip4/127.0.0.1/tcp/" + s when s is a port number
ValidPort(s) == s \in {"2345", "9000"}

\* apima: "/ip4/127.0.0.1/tcp/" + cctx.String("api")
ApiMultiaddr(s) == [ip |-> "127.0.0.1", port |-> s]

\* lr.SetAPIEndpoint(apima): the repository persists the address when it succeeds
LockedRepoSetAPIEndpoint(cur, apima, ok) == IF ok THEN apima ELSE cur

\* r.APIEndpoint(): the repository's persisted endpoint; an error when there is none
RepoAPIEndpointFails(cur) == cur = NoEndpoint

\* stop, err := node.New(ctx, ..., node.ApplyIf(..., node.Override(SetApiEndpointKey, ...)), ...)
MainNew ==
  /\ pc = "new"
  /\ \E setOk, buildOk \in BOOLEAN :
       IF EndpointOverrideSet(cfg.apiSet)
       THEN IF ~ValidPort(cfg.api)
            THEN /\ calls' = Called("New")
                 /\ Return(Error("NewMultiaddr"))
                 /\ UNCHANGED <<repoEndpoint, node>>
            ELSE /\ calls' = Called2("New", "SetAPIEndpoint")
                 /\ repoEndpoint' =
                      LockedRepoSetAPIEndpoint(repoEndpoint, ApiMultiaddr(cfg.api), setOk)
                 /\ IF setOk /\ buildOk
                    THEN node' = "running" /\ pc' = "endpoint" /\ result' = result
                    ELSE Return(Error("New")) /\ node' = node
       ELSE /\ calls' = Called("New")
            /\ repoEndpoint' = repoEndpoint
            /\ IF buildOk
               THEN node' = "running" /\ pc' = "endpoint" /\ result' = result
               ELSE Return(Error("New")) /\ node' = node
  /\ UNCHANGED <<cfg, endpoint, lst, peer, serveVars, sigVars, sdVars, plVars, exited>>

\* endpoint, err := r.APIEndpoint()
MainEndpoint ==
  /\ pc = "endpoint"
  /\ calls' = Called("APIEndpoint")
  /\ \E ok \in BOOLEAN :
       IF ok /\ ~RepoAPIEndpointFails(repoEndpoint)
       THEN endpoint' = repoEndpoint /\ pc' = "netaddrs" /\ result' = result
       ELSE Return(Error("APIEndpoint")) /\ endpoint' = endpoint
  /\ UNCHANGED <<cfg, repoEndpoint, node, lst, peer, serveVars, sigVars, sdVars, plVars, exited>>

\* remoteAddrs, err := nodeApi.NetAddrsListen(ctx)
MainNetAddrs ==
  /\ pc = "netaddrs"
  /\ calls' = Called("NetAddrsListen")
  /\ \E ok \in BOOLEAN :
       IF ok THEN pc' = "netconnect" /\ result' = result
       ELSE Return(Error("NetAddrsListen"))
  /\ UNCHANGED <<cfg, bootVars, serveVars, sigVars, sdVars, plVars, exited>>

AfterNetConnect_IgnoreError(ok) == "listen"

\* if err := minerapi.NetConnect(ctx, remoteAddrs); err != nil { return err }
AfterNetConnect(ok) == IF ok THEN "listen" ELSE "returned"

\* minerapi.NetConnect(ctx, remoteAddrs): the node connects to the daemon when it succeeds
MainNetConnect ==
  /\ pc = "netconnect"
  /\ calls' = Called("NetConnect")
  /\ \E ok \in BOOLEAN :
       /\ peer' = ok
       /\ IF AfterNetConnect(ok) = "returned"
          THEN Return(Error("NetConnect"))
          ELSE pc' = AfterNetConnect(ok) /\ result' = result
  /\ UNCHANGED <<cfg, repoEndpoint, endpoint, node, lst, serveVars, sigVars, sdVars, plVars,
                 exited>>

AfterListen_IgnoreError(ok) == "setup"

\* if err != nil { return xerrors.Errorf("could not listen: %w", err) }
AfterListen(ok) == IF ok THEN "setup" ELSE "returned"

\* lst, err := manet.Listen(endpoint)
MainListen ==
  /\ pc = "listen"
  /\ calls' = Called("Listen")
  /\ \E ok \in BOOLEAN :
       /\ lst' = IF ok THEN [state |-> "open", addr |-> endpoint] ELSE lst
       /\ IF AfterListen(ok) = "returned"
          THEN Return(Error("Listen"))
          ELSE pc' = AfterListen(ok) /\ result' = result
  /\ UNCHANGED <<cfg, repoEndpoint, endpoint, node, peer, serveVars, sigVars, sdVars,
                 plVars, exited>>

SrvHandler_Mux == "mux"

\* srv := &http.Server{Handler: ah}
SrvHandler == "ah"

PledgeEnabled_Always(flag) == TRUE

\* if cctx.Bool("pledge-sector") { go func() { ... }() }
PledgeEnabled(flag) == flag

\* the router, the auth handler and the server are built, the shutdown goroutine is
\* started, the signals are registered and, when enabled, the pledge goroutine is started
MainSetup ==
  /\ pc = "setup"
  /\ srv' = [srv EXCEPT !.handler = SrvHandler]
  /\ sdPc' = "wait"
  /\ notified' = TRUE
  /\ plPc' = IF PledgeEnabled(cfg.pledge) THEN "begin" ELSE "off"
  /\ pc' = "serve"
  /\ UNCHANGED <<cfg, result, calls, bootVars, req, sigChan, signalled, sdLog, plLog,
                 ctxDone, wstat, exited>>

\* return srv.Serve(manet.NetListener(lst)): a server already shut down returns
\* ErrServerClosed at once and closes the listener it was given
MainServe ==
  /\ pc = "serve"
  /\ calls' = Called("Serve")
  /\ IF srv.inShutdown
     THEN Return(Error("ErrServerClosed")) /\ lst' = [lst EXCEPT !.state = "closed"]
     ELSE pc' = "serving" /\ result' = result /\ lst' = lst
  /\ UNCHANGED <<cfg, repoEndpoint, endpoint, node, peer, serveVars, sigVars, sdVars,
                 plVars, exited>>

\* srv.Serve returns ErrServerClosed once Shutdown has been called
ServeClosed ==
  /\ pc = "serving"
  /\ srv.inShutdown
  /\ Return(Error("ErrServerClosed"))
  /\ UNCHANGED <<cfg, calls, bootVars, serveVars, sigVars, sdVars, plVars, exited>>

\* srv.Serve returns the listener's accept error
ServeAcceptError ==
  /\ pc = "serving"
  /\ ~srv.inShutdown
  /\ Return(Error("Accept"))
  /\ lst' = [lst EXCEPT !.state = "closed"]
  /\ UNCHANGED <<cfg, calls, repoEndpoint, endpoint, node, peer, serveVars, sigVars, sdVars,
                 plVars, exited>>

\* runCmd.Action has returned: the process exits, and its goroutines with it
ProcExit ==
  /\ pc = "returned"
  /\ ~exited
  /\ exited' = TRUE
  /\ UNCHANGED <<cfg, pc, result, calls, bootVars, serveVars, sigVars, sdVars, plVars>>

(* ------------------------------- serving -------------------------------- *)

IsPrefix(p, s) == Len(p) <= Len(s) /\ SubSeq(s, 1, Len(p)) = p

Route_PrefixRpc(path) ==
  IF IsPrefix(<<"/", "rpc", "/", "v0">>, path) THEN "rpcServer"
  ELSE IF IsPrefix(<<"/", "remote">>, path) THEN "ServeRemote"
  ELSE IF IsPrefix(<<"/">>, path) THEN "DefaultServeMux"
  ELSE "NotFound"

\* mux.Handle("/rpc/v0", rpcServer); mux.PathPrefix("/remote")...; mux.PathPrefix("/")...
\* the first route that matches, in the order of registration
Route(path) ==
  IF path = <<"/", "rpc", "/", "v0">> THEN "rpcServer"
  ELSE IF IsPrefix(<<"/", "remote">>, path) THEN "ServeRemote"
  ELSE IF IsPrefix(<<"/">>, path) THEN "DefaultServeMux"
  ELSE "NotFound"

\* minerapi.AuthVerify on the request's credential
Verify(cred) == cred = "valid"

\* auth.Handler.ServeHTTP: verify the credential, forward to Next only on success
AuthServeHTTP(r) ==
  IF Verify(r.cred)
  THEN [r EXCEPT !.stage = "handler", !.verified = TRUE, !.handler = Route(r.path)]
  ELSE [r EXCEPT !.stage = "rejected", !.verified = TRUE]

\* mux.ServeHTTP: dispatch to the matching route's handler
MuxServeHTTP(r) == [r EXCEPT !.stage = "handler", !.handler = Route(r.path)]

\* a connection is accepted and a request read from it
ReqArrive ==
  /\ pc = "serving"
  /\ lst.state = "open"
  /\ ~srv.inShutdown
  /\ ~exited
  /\ req.stage = "none"
  /\ \E p \in RequestPaths, c \in Credentials :
       req' = [NoReq EXCEPT !.stage = "srv", !.path = p, !.cred = c]
  /\ UNCHANGED <<cfg, pc, result, calls, bootVars, srv, sigVars, sdVars, plVars, exited>>

\* srv.Handler.ServeHTTP(w, r)
ReqServe ==
  /\ req.stage = "srv"
  /\ ~exited
  /\ req' = IF srv.handler = "ah" THEN AuthServeHTTP(req) ELSE MuxServeHTTP(req)
  /\ UNCHANGED <<cfg, pc, result, calls, bootVars, srv, sigVars, sdVars, plVars, exited>>

\* the response is written and the connection becomes idle
ReqDone ==
  /\ req.stage \in {"handler", "rejected"}
  /\ ~exited
  /\ req' = NoReq
  /\ UNCHANGED <<cfg, pc, result, calls, bootVars, srv, sigVars, sdVars, plVars, exited>>

(* ------------------------------- shutdown ------------------------------- *)

\* a SIGTERM or SIGINT reaches the process: signal.Notify sends without blocking
Signal ==
  /\ notified
  /\ ~exited
  /\ signalled' = TRUE
  /\ \E s \in Signals :
       sigChan' = IF sigChan < SigChanCap THEN sigChan + 1 ELSE sigChan
  /\ UNCHANGED <<cfg, pc, result, calls, bootVars, serveVars, notified, sdVars, plVars,
                 exited>>

AfterSignal_ShutdownFirst == "shutdown"

\* after the signal the goroutine first calls stop
AfterSignal == "stop"

\* <-sigChan; log.Warn("Shutting down.."): the value received is discarded
SdReceive ==
  /\ sdPc = "wait"
  /\ ~exited
  /\ sigChan > 0
  /\ sigChan' = sigChan - 1
  /\ sdLog' = sdLog \cup {"Shutting down.."}
  /\ sdPc' = AfterSignal
  /\ UNCHANGED <<cfg, pc, result, calls, bootVars, serveVars, notified, signalled, plVars,
                 exited>>

\* stop(context.TODO()) is called
SdStopCall ==
  /\ sdPc = "stop"
  /\ ~exited
  /\ calls' = Called("stop")
  /\ sdPc' = "stopping"
  /\ UNCHANGED <<cfg, pc, result, bootVars, serveVars, sigVars, sdLog, plVars, exited>>

AfterStop_AbortOnError(ok) == IF ok THEN "shutdown" ELSE "done"

\* if err := stop(...); err != nil { log.Errorf(...) } and on to srv.Shutdown
AfterStop(ok) == "shutdown"

\* stop returns
SdStopReturn ==
  /\ sdPc = "stopping"
  /\ ~exited
  /\ \E ok \in BOOLEAN :
       /\ node' = IF ok THEN "stopped" ELSE "stopErr"
       /\ sdLog' = IF ok THEN sdLog ELSE sdLog \cup {"graceful shutting down failed"}
       /\ sdPc' = AfterStop(ok)
  /\ UNCHANGED <<cfg, pc, result, calls, repoEndpoint, endpoint, lst, peer, serveVars, sigVars,
                 plVars, exited>>

\* srv.Shutdown(context.TODO()) is called: the server is marked as shutting down and
\* the listeners Serve has registered are closed
SdShutdownCall ==
  /\ sdPc = "shutdown"
  /\ ~exited
  /\ calls' = Called("Shutdown")
  /\ srv' = [srv EXCEPT !.inShutdown = TRUE]
  /\ lst' = IF pc = "serving" THEN [lst EXCEPT !.state = "closed"] ELSE lst
  /\ sdPc' = "shuttingDown"
  /\ UNCHANGED <<cfg, pc, result, repoEndpoint, endpoint, node, peer, req, sigVars, sdLog,
                 plVars, exited>>

AfterShutdown_Loop(ok) == "wait"

\* if err := srv.Shutdown(...); err != nil { log.Errorf(...) }; log.Warn("Graceful ...")
\* and the goroutine ends: sigChan is never read again
AfterShutdown(ok) == "done"

\* srv.Shutdown returns once no connection is active
SdShutdownReturn ==
  /\ sdPc = "shuttingDown"
  /\ ~exited
  /\ req.stage = "none"
  /\ \E ok \in BOOLEAN :
       /\ sdPc' = AfterShutdown(ok)
       /\ sdLog' = (IF ok THEN sdLog ELSE sdLog \cup {"shutting down RPC server failed"})
                     \cup (IF AfterShutdown(ok) = "done"
                           THEN {"Graceful shutdown successful"} ELSE {})
  /\ UNCHANGED <<cfg, pc, result, calls, bootVars, serveVars, sigVars, plVars, exited>>

(* ------------------------------ pledge loop ----------------------------- *)

\* nodeApi, closer, err := lcli.GetStorageMinerAPI(cctx); ctx := lcli.ReqContext(cctx)
PledgeBegin ==
  /\ plPc = "begin"
  /\ ~exited
  /\ calls' = Called("GetStorageMinerAPI")
  /\ \E ok \in BOOLEAN :
       IF ok
       THEN plPc' = "select" /\ plLog' = plLog \cup {"Begin pledge sector"}
       ELSE /\ plPc' = "done"
            /\ plLog' = plLog \cup {"Begin pledge sector", "GetStorageMinerAPI fail"}
  /\ UNCHANGED <<cfg, pc, result, bootVars, serveVars, sigVars, sdVars, ctxDone, wstat,
                 exited>>

\* the request context is cancelled after a termination signal
CtxCancel ==
  /\ plPc \in {"select", "query", "stats", "submit"}
  /\ ~exited
  /\ signalled
  /\ ~ctxDone
  /\ ctxDone' = TRUE
  /\ UNCHANGED <<cfg, pc, result, calls, bootVars, serveVars, sigVars, sdVars, plPc, plLog,
                 wstat, exited>>

AfterCtxDone_Break == "query"

\* case <-ctx.Done(): log.Infof("End pledge sector"); return
AfterCtxDone == "done"

\* the select takes the ctx.Done() case
PledgeSelectDone ==
  /\ plPc = "select"
  /\ ~exited
  /\ ctxDone
  /\ plPc' = AfterCtxDone
  /\ plLog' = plLog \cup {"End pledge sector"}
  /\ UNCHANGED <<cfg, pc, result, calls, bootVars, serveVars, sigVars, sdVars, ctxDone,
                 wstat, exited>>

\* case <-time.After(build.FallbackPoStDelay * time.Second): the timer of this
\* iteration fires. A select takes the first of its cases to become ready, and a timer
\* made on entering the select is not ready then, so the timer case is taken only while
\* ctx.Done() is still open. calls["time.After"] counts the waits that ran to the end.
PledgeSelectTimer ==
  /\ plPc = "select"
  /\ ~exited
  /\ ~ctxDone
  /\ calls["WorkerStats"] < MaxCycles
  /\ calls' = Called("time.After")
  /\ plPc' = "query"
  /\ UNCHANGED <<cfg, pc, result, bootVars, serveVars, sigVars, sdVars, plLog,
                 ctxDone, wstat, exited>>

AfterQueryFailure_Continue == "select"

\* if err != nil { log.Errorf("Pledge: WorkerStats fail: %w", err); return }
AfterQueryFailure == "done"

HasFree_LocalOnly(w) == w.LocalFree > 0

\* if wstat.LocalFree + wstat.RemotesFree > 0
HasFree(w) == w.LocalFree + w.RemotesFree > 0

\* wstat, err := nodeApi.WorkerStats(ctx)
PledgeQuery ==
  /\ plPc = "query"
  /\ ~exited
  /\ calls' = Called("WorkerStats")
  /\ \E ok \in BOOLEAN, lf \in 0..MaxFree, rf \in 0..MaxFree :
       IF ok
       THEN /\ wstat' = [LocalFree |-> lf, RemotesFree |-> rf, set |-> TRUE]
            /\ plLog' = plLog
            /\ plPc' = "stats"
       ELSE /\ wstat' = wstat
            /\ plLog' = plLog \cup {"WorkerStats fail"}
            /\ plPc' = AfterQueryFailure
  /\ UNCHANGED <<cfg, pc, result, bootVars, serveVars, sigVars, sdVars, ctxDone, exited>>

\* log.Infof("Pledge: %d/%d workers", ...); with free capacity the loop goes on to
\* PledgeSector, without it the iteration ends
PledgeLog ==
  /\ plPc = "stats"
  /\ ~exited
  /\ calls' = Called("log.Pledge")
  /\ IF HasFree(wstat)
     THEN plPc' = "submit" /\ wstat' = wstat
     ELSE plPc' = "select" /\ wstat' = NoWstat
  /\ UNCHANGED <<cfg, pc, result, bootVars, serveVars, sigVars, sdVars, plLog, ctxDone,
                 exited>>

AfterSubmit_ReturnOnError(ok) == IF ok THEN "select" ELSE "done"

AfterSubmit_Requery(ok) == "query"

\* err = nodeApi.PledgeSector(ctx): the outcome is logged and the loop iterates
AfterSubmit(ok) == "select"

PledgeSubmit ==
  /\ plPc = "submit"
  /\ ~exited
  /\ calls' = Called("PledgeSector")
  /\ \E ok \in BOOLEAN :
       /\ plLog' = plLog \cup {IF ok THEN "Success pledge sector" ELSE "Pledge sector error"}
       /\ plPc' = AfterSubmit(ok)
  /\ wstat' = NoWstat
  /\ UNCHANGED <<cfg, pc, result, bootVars, serveVars, sigVars, sdVars, ctxDone, exited>>

Next ==
  \/ MainConnect
  \/ MainVersion
  \/ MainSync
  \/ MainRepo
  \/ MainNew
  \/ MainEndpoint
  \/ MainNetAddrs
  \/ MainNetConnect
  \/ MainListen
  \/ MainSetup
  \/ MainServe
  \/ ServeClosed
  \/ ServeAcceptError
  \/ ProcExit
  \/ ReqArrive
  \/ ReqServe
  \/ ReqDone
  \/ Signal
  \/ SdReceive
  \/ SdStopCall
  \/ SdStopReturn
  \/ SdShutdownCall
  \/ SdShutdownReturn
  \/ PledgeBegin
  \/ CtxCancel
  \/ PledgeSelectDone
  \/ PledgeSelectTimer
  \/ PledgeQuery
  \/ PledgeLog
  \/ PledgeSubmit

Spec == Init /\ [][Next]_vars

(* ------------------------------- properties ----------------------------- *)

\* C1: when the version the daemon reports differs from build.APIVersion, the run
\* action returns the version-mismatch error right after the Version call: SyncWait is
\* never called, the repository is never opened, node.New is never called, no listener
\* is opened and srv.Serve is never entered.
C1_VersionMismatchAborts ==
  cfg.remote # APIVersion =>
    /\ calls["SyncWait"] = 0
    /\ calls["NewFS"] = 0 /\ calls["Exists"] = 0
    /\ calls["New"] = 0 /\ node = "none"
    /\ calls["Listen"] = 0 /\ lst.state = "none"
    /\ calls["Serve"] = 0 /\ pc \notin {"serve", "serving"}
    /\ calls["Version"] = 1 =>
         /\ pc = "returned"
         /\ result.err # "Version" => result = ErrorArg("VersionMismatch", APIVersion)

C1_Witness ==
  /\ cfg.remote # APIVersion
  /\ pc = "returned"
  /\ result.err = "VersionMismatch"

\* the run action has got as far as the repository check, or SyncWait has failed
ReachedRepoCheck == pc = "repo" \/ calls["NewFS"] > 0

\* C2: with nosync set SyncWait is never called and the run action goes from the
\* version check to the repository check; without it SyncWait is called exactly once
\* before the repository check, and its failure makes the run action return the
\* sync-wait error with no node started.
C2_SyncGate ==
  /\ calls["SyncWait"] <= 1
  /\ cfg.nosync => calls["SyncWait"] = 0 /\ result.err # "SyncWait"
  /\ (~cfg.nosync /\ (ReachedRepoCheck \/ result.err = "SyncWait")) => calls["SyncWait"] = 1
  /\ result.err = "SyncWait" =>
       /\ pc = "returned"
       /\ calls["NewFS"] = 0 /\ calls["New"] = 0 /\ node = "none" /\ lst.state = "none"

C2_Witness ==
  /\ cfg.nosync
  /\ pc = "new"
  /\ calls["SyncWait"] = 0
  /\ calls["Exists"] = 1

\* C3: a route handler runs for a request only after the request's credential has been
\* verified, and only when the verification succeeded, on every route.
C3_AuthBeforeRoute ==
  /\ req.stage = "handler" => req.verified /\ req.cred = "valid"
  /\ req.handler # "" => req.stage = "handler"
  /\ req.stage = "rejected" => req.cred # "valid"

C3_Witness ==
  /\ req.stage = "rejected"
  /\ req.cred = "invalid"
  /\ req.path = <<"/", "debug">>

\* C4: srv.Shutdown is called only after the node's stop function has been called and
\* has returned.
C4_StopBeforeShutdown ==
  (calls["Shutdown"] > 0 \/ srv.inShutdown \/ sdPc \in {"shuttingDown", "done"}) =>
    /\ calls["stop"] = 1
    /\ sdPc \notin {"wait", "stop", "stopping"}
    /\ node \in {"stopped", "stopErr"}

C4_Witness ==
  /\ calls["Shutdown"] = 1
  /\ calls["stop"] = 1
  /\ sdPc = "done"

\* C5: an error returned by stop is logged and the goroutine goes on to call
\* srv.Shutdown; an error returned by srv.Shutdown is logged and the goroutine ends as
\* it does without the error.
C5_ShutdownIsolation ==
  /\ node = "stopErr" =>
       /\ "graceful shutting down failed" \in sdLog
       /\ sdPc \in {"shutdown", "shuttingDown", "done"}
  /\ "shutting down RPC server failed" \in sdLog => sdPc = "done"
  /\ sdPc \in {"shuttingDown", "done"} => calls["Shutdown"] = 1
  /\ sdPc = "done" <=> "Graceful shutdown successful" \in sdLog
  /\ sdPc \in {"none", "wait", "stop", "stopping", "shutdown", "shuttingDown", "done"}

C5_Witness ==
  /\ node = "stopErr"
  /\ "shutting down RPC server failed" \in sdLog
  /\ calls["Shutdown"] = 1
  /\ sdPc = "done"

C7_QueryFailureTerminates ==
  /\ []("WorkerStats fail" \in plLog => plPc = "done")
  /\ [][ "WorkerStats fail" \in plLog' =>
           /\ calls'["PledgeSector"] = calls["PledgeSector"]
           /\ "WorkerStats fail" \in plLog =>
                calls'["WorkerStats"] = calls["WorkerStats"] ]_vars

C7_Witness ==
  /\ "WorkerStats fail" \in plLog
  /\ plPc = "done"
  /\ calls["WorkerStats"] = 1
  /\ pc = "serving"

\* C8: every successful WorkerStats call is followed by the log of the snapshot, and the
\* loop then goes on to call PledgeSector exactly when LocalFree + RemotesFree > 0, and
\* back to its select, with no PledgeSector call, when the sum is 0.
C8_SubmitIffFree ==
  /\ [](calls["WorkerStats"] =
          calls["log.Pledge"] + (IF plPc = "stats" THEN 1 ELSE 0)
                              + (IF "WorkerStats fail" \in plLog THEN 1 ELSE 0))
  /\ [](calls["PledgeSector"] + (IF plPc = "submit" THEN 1 ELSE 0) <= calls["log.Pledge"])
  /\ [][ (plPc = "stats" /\ plPc' # "stats") =>
           /\ calls'["log.Pledge"] = calls["log.Pledge"] + 1
           /\ calls'["PledgeSector"] = calls["PledgeSector"]
           /\ plPc' = "submit" <=> wstat.LocalFree + wstat.RemotesFree > 0
           /\ plPc' = "select" <=> wstat.LocalFree + wstat.RemotesFree = 0 ]_vars
  /\ [][ calls'["PledgeSector"] # calls["PledgeSector"] =>
           /\ plPc = "submit"
           /\ calls'["PledgeSector"] = calls["PledgeSector"] + 1 ]_vars

C8_Witness ==
  /\ plPc = "select"
  /\ calls["WorkerStats"] = 1
  /\ calls["log.Pledge"] = 1
  /\ calls["PledgeSector"] = 0

\* C9, as claimed: with an uninitialized repository the run action, once the daemon has
\* answered the Version call, returns the repo-not-initialized error naming the path,
\* whatever the outcome of the version and sync checks.
C9_Original ==
  (~cfg.repoInit /\ pc = "returned" /\ calls["Version"] = 1 /\ result.err # "Version") =>
    result = ErrorArg("RepoNotInitialized", storageRepoPath)

BootstrapErrorsBeforeNode ==
  { "GetFullNodeAPI", "Version", "VersionMismatch", "SyncWait", "NewFS", "Exists",
    "RepoNotInitialized" }

\* C9, amended: with an uninitialized repository the run action returns an error before
\* node.New is called and before a listener is opened, whatever the outcome of the
\* earlier checks; the error is the repo-not-initialized error naming the path when the
\* Exists call is reached and succeeds, and the error of the earlier step otherwise.
C9_RepoNotInitialized ==
  ~cfg.repoInit =>
    /\ calls["New"] = 0 /\ node = "none"
    /\ calls["Listen"] = 0 /\ lst.state = "none"
    /\ pc \in {"connect", "version", "sync", "repo", "returned"}
    /\ pc = "returned" => result.err \in BootstrapErrorsBeforeNode
    /\ (calls["Exists"] = 1 /\ result.err # "Exists") =>
         /\ pc = "returned"
         /\ result = ErrorArg("RepoNotInitialized", storageRepoPath)

C9_Witness ==
  /\ ~cfg.repoInit
  /\ pc = "returned"
  /\ result = ErrorArg("RepoNotInitialized", storageRepoPath)
  /\ calls["SyncWait"] = 1

\* C10: with the api flag set the listener is bound to /ip4/127.0.0.1/tcp/<api>, whatever
\* the repository held; with the flag not set SetAPIEndpoint is never called, the
\* repository's endpoint never changes and the listener is bound to it.
C10_EndpointResolution ==
  /\ [](lst.state # "none" =>
          /\ lst.addr # NoEndpoint
          /\ cfg.apiSet => lst.addr = [ip |-> "127.0.0.1", port |-> cfg.api]
          /\ ~cfg.apiSet => lst.addr = repoEndpoint)
  /\ [](~cfg.apiSet => calls["SetAPIEndpoint"] = 0)
  /\ [][~cfg.apiSet => repoEndpoint' = repoEndpoint]_vars

C10_Witness ==
  /\ cfg.apiSet
  /\ lst.state = "open"
  /\ lst.addr = [ip |-> "127.0.0.1", port |-> "9000"]
  /\ calls["SetAPIEndpoint"] = 1

BootstrapErrors ==
  BootstrapErrorsBeforeNode \cup
    {"NewMultiaddr", "New", "APIEndpoint", "NetAddrsListen", "NetConnect", "Listen"}

BootstrapCallees ==
  { "GetFullNodeAPI", "Version", "SyncWait", "NewFS", "Exists", "New", "APIEndpoint",
    "NetAddrsListen", "NetConnect", "Listen", "Serve" }

\* C11: the bootstrap steps run once each, in the order version check, sync wait, node
\* bootstrap, peer bootstrap, listener bind, serve, each only after every earlier one has
\* succeeded; whenever the listener is open, srv.Serve is running or a request is in
\* flight, the node has been built and is connected to the daemon; after the failure of a
\* bootstrap step no later step runs and srv.Serve is never called.
C11_SequentialFailStop ==
  /\ \A c \in BootstrapCallees : calls[c] <= 1
  /\ calls["SyncWait"] > 0 => calls["Version"] = 1 /\ cfg.remote = APIVersion
  /\ calls["New"] > 0 =>
       /\ calls["Version"] = 1 /\ cfg.remote = APIVersion
       /\ ~cfg.nosync => calls["SyncWait"] = 1
       /\ calls["Exists"] = 1 /\ cfg.repoInit
  /\ calls["NetAddrsListen"] > 0 => calls["New"] = 1 /\ node # "none"
  /\ calls["NetConnect"] > 0 => calls["NetAddrsListen"] = 1
  /\ calls["Listen"] > 0 => calls["NetConnect"] = 1 /\ peer
  /\ calls["Serve"] > 0 => calls["Listen"] = 1 /\ lst.state # "none"
  /\ (lst.state = "open" \/ pc \in {"serve", "serving"} \/ req.stage # "none") =>
       node # "none" /\ peer
  /\ result.err \in BootstrapErrors =>
       /\ pc = "returned"
       /\ calls["Serve"] = 0 /\ lst.state = "none" /\ req.stage = "none"
       /\ ~notified /\ sdPc = "none" /\ plPc = "off"

C11_Witness ==
  /\ pc = "serving"
  /\ req.stage = "handler"
  /\ lst.state = "open"
  /\ node = "running"
  /\ peer

\* the bootstrap steps that follow a successful node.New
ErrorsAfterNodeNew == {"APIEndpoint", "NetAddrsListen", "NetConnect", "Listen"}

\* C12, as claimed: when the run action returns the error of a bootstrap step that
\* follows a successful node.New, the node's stop function has been called and the node
\* is no longer running.
C12_Original ==
  (pc = "returned" /\ result.err \in ErrorsAfterNodeNew) =>
    calls["stop"] >= 1 /\ node # "running"

\* C13, as claimed: when srv.Serve returns because of the shutdown a termination signal
\* started, the shutdown goroutine has already finished stop and srv.Shutdown.
C13_Original ==
  (pc = "returned" /\ result.err = "ErrServerClosed") => sdPc = "done"

\* C14: whichever of SIGTERM and SIGINT arrive, and however many, stop is called at most
\* once and srv.Shutdown at most once; the goroutine never goes back to waiting once it
\* has taken a signal; a later signal is buffered or dropped, so delivery is never
\* blocked while the process lives, and the process exits only by the action's return.
C14_FirstSignalOnly ==
  /\ calls["stop"] <= 1
  /\ calls["Shutdown"] <= 1
  /\ calls["Shutdown"] <= calls["stop"]
  /\ sigChan <= SigChanCap
  /\ (calls["stop"] = 1 => sdPc \notin {"none", "wait", "stop"})
  /\ (sdPc \in {"none", "wait", "stop"} => calls["stop"] = 0)
  /\ ((notified /\ ~exited) => ENABLED Signal)
  /\ (exited => pc = "returned")

\* the shutdown has completed and later signals have filled the channel
C14_Witness ==
  /\ sdPc = "done"
  /\ sigChan = SigChanCap
  /\ calls["stop"] = 1
  /\ calls["Shutdown"] = 1
  /\ ~exited

\* the pledge goroutine has a WorkerStats or a PledgeSector call to make or in flight
InQuery == plPc = "query"
InSubmit == plPc = "submit"

\* C15: the pledge loop is sequential and waits before every query: each WorkerStats
\* call, made or about to be made, has its own completed interval wait; a cycle makes at
\* most one PledgeSector call, and only with the successful WorkerStats result of that
\* cycle in hand; the goroutine is at one place, so a query and a submission are never in
\* flight together.
C15_SequentialPledgeLoop ==
  /\ calls["time.After"] = calls["WorkerStats"] + (IF InQuery THEN 1 ELSE 0)
  /\ calls["PledgeSector"] + (IF InSubmit THEN 1 ELSE 0) <= calls["WorkerStats"]
  /\ calls["PledgeSector"] + (IF InSubmit THEN 1 ELSE 0) <= calls["time.After"]
  /\ (InSubmit => wstat.set /\ HasFree(wstat))
  /\ (InQuery => ~wstat.set)
  /\ ~(InQuery /\ InSubmit)

\* two full cycles, each with a wait, a query and a submission
C15_Witness ==
  /\ calls["time.After"] = 2
  /\ calls["WorkerStats"] = 2
  /\ calls["PledgeSector"] = 2
  /\ plPc = "select"

\* C16: once the context is cancelled while the pledge loop waits in its select, the
\* loop's next step ends it, with no WorkerStats and no PledgeSector call in between or
\* afterwards; the ended loop never runs again.
C16_CancelStopsPledgeLoop ==
  /\ [][(ctxDone /\ plPc = "select") =>
          /\ plPc' \in {"select", "done"}
          /\ calls'["WorkerStats"] = calls["WorkerStats"]
          /\ calls'["PledgeSector"] = calls["PledgeSector"]
          /\ calls'["time.After"] = calls["time.After"]]_vars
  /\ [][plPc = "done" =>
          /\ plPc' = "done"
          /\ calls'["WorkerStats"] = calls["WorkerStats"]
          /\ calls'["PledgeSector"] = calls["PledgeSector"]]_vars
  /\ [](ctxDone => signalled)

\* the loop was cancelled in its wait after a full cycle, and has ended
C16_Witness ==
  /\ ctxDone
  /\ plPc = "done"
  /\ "End pledge sector" \in plLog
  /\ calls["WorkerStats"] = 1
  /\ calls["PledgeSector"] = 1

\* a step of the pledge goroutine, once MainSetup has started it
PledgeStep == plPc # "off" /\ plPc' # plPc

\* what the serving path and the shutdown path are made of
ServingPath == <<pc, result, node, lst, peer, srv, req, sdPc, sdLog, sigChan, exited>>

\* C17: without --pledge-sector the pledge goroutine does not exist and no
\* GetStorageMinerAPI, WorkerStats or PledgeSector call is made; with it, no step of the
\* goroutine, its ending by any cause included, calls stop or srv.Shutdown, makes
\* srv.Serve return, or changes anything of the serving path.
C17_PledgeLoopSelfContained ==
  /\ [](~cfg.pledge =>
          /\ plPc = "off"
          /\ plLog = {}
          /\ calls["GetStorageMinerAPI"] = 0
          /\ calls["time.After"] = 0
          /\ calls["WorkerStats"] = 0
          /\ calls["PledgeSector"] = 0)
  /\ [](plPc # "off" => cfg.pledge)
  /\ [][PledgeStep =>
          /\ UNCHANGED ServingPath
          /\ calls'["stop"] = calls["stop"]
          /\ calls'["Shutdown"] = calls["Shutdown"]
          /\ calls'["Serve"] = calls["Serve"]]_vars

\* the loop has ended on a failed query while the server goes on serving a request and
\* no shutdown has begun
C17_Witness ==
  /\ cfg.pledge
  /\ plPc = "done"
  /\ "WorkerStats fail" \in plLog
  /\ pc = "serving"
  /\ req.stage = "handler"
  /\ sdPc = "wait"
  /\ calls["stop"] = 0
  /\ calls["Shutdown"] = 0

\* the steps of the shutdown goroutine
SdStep == SdReceive \/ SdStopCall \/ SdStopReturn \/ SdShutdownCall \/ SdShutdownReturn

\* the scheduler runs every goroutine that can run: the shutdown goroutine proceeds and
\* the calls of stop and srv.Shutdown return, a request in flight is served to its end,
\* and srv.Serve returns once it can
FairSpec ==
  /\ Spec
  /\ WF_vars(SdStep)
  /\ WF_vars(ReqServe \/ ReqDone)
  /\ WF_vars(MainServe \/ ServeClosed)

\* C18, as claimed: a termination signal that arrives once the signals are registered
\* leads to the shutdown goroutine reaching its end and to srv.Serve having returned.
C18_Original ==
  signalled ~> (sdPc = "done" /\ pc = "returned")

\* C19: a request that reaches the router is dispatched to exactly one handler, the
\* first whose route matches: rpcServer for the path /rpc/v0 itself, else ServeRemote for
\* a path that starts with /remote, else http.DefaultServeMux.
C19_FirstMatchRouting ==
  req.stage = "handler" =>
    /\ req.handler \in {"rpcServer", "ServeRemote", "DefaultServeMux"}
    /\ (req.handler = "rpcServer" <=> req.path = <<"/", "rpc", "/", "v0">>)
    /\ (req.handler = "ServeRemote" <=> IsPrefix(<<"/", "remote">>, req.path))
    /\ (req.handler = "DefaultServeMux" <=>
          /\ req.path # <<"/", "rpc", "/", "v0">>
          /\ ~IsPrefix(<<"/", "remote">>, req.path))

\* a path below /rpc/v0 has gone to the catch-all
C19_Witness ==
  /\ req.stage = "handler"
  /\ IsPrefix(<<"/", "rpc", "/", "v0">>, req.path)
  /\ req.path # <<"/", "rpc", "/", "v0">>
  /\ req.handler = "DefaultServeMux"

\* srv.Shutdown has been called before srv.Serve
ShutdownBeforeServe == pc = "serve" /\ srv.inShutdown

\* C20: the signals are registered and the shutdown goroutine exists only once the node
\* runs, the peer is connected and the listener is bound, and they are before srv.Serve
\* is called; when srv.Shutdown has been called before srv.Serve, srv.Serve returns
\* ErrServerClosed with no request accepted; no request is accepted once srv.Shutdown
\* has been called, so none is in a handler after the goroutine has reached its end.
C20_RegistrationWindow ==
  /\ [](notified <=> sdPc # "none")
  /\ [](notified => node # "none" /\ peer /\ lst.state # "none" /\ lst.addr = endpoint)
  /\ [](notified <=> pc \in {"serve", "serving"} \/ (pc = "returned" /\ calls["Serve"] = 1))
  /\ [](calls["Serve"] = 1 => notified)
  /\ [](~notified => sigChan = 0 /\ ~signalled /\ req.stage = "none")
  /\ [][ShutdownBeforeServe =>
          /\ pc' \in {"serve", "returned"}
          /\ (pc' = "returned" => result'.err = "ErrServerClosed")
          /\ req.stage = "none" /\ req'.stage = "none"]_vars
  /\ [][(srv.inShutdown /\ req.stage = "none") => req'.stage = "none"]_vars
  /\ [](sdPc = "done" => req.stage = "none")

\* the signal was handled to the end, stop and srv.Shutdown included, before srv.Serve
\* is called
C20_Witness ==
  /\ ShutdownBeforeServe
  /\ sdPc = "done"
  /\ calls["stop"] = 1
  /\ calls["Shutdown"] = 1
  /\ calls["Serve"] = 0

====
